---- MODULE Spec2Model ----
(***************************************************************************)
(* A model of DbExplorer (db_explorer.go): the table catalog loaded at     *)
(* start-up, the ServeHTTP router and its handlers, the database they      *)
(* query, and the connection pool handleGetRecord draws from.              *)
(*                                                                         *)
(* Strings that the code takes apart (the URL path, limit and offset, the  *)
(* table names it sorts) are sequences of one-character strings, so that   *)
(* Trim, Split, the sort and the integer parse are computed, not assumed.  *)
(***************************************************************************)
EXTENDS Integers, Sequences, FiniteSets, TLC

VARIABLES
    tables,     \* de.tables: the catalog, table name -> nil
    dbRows,     \* the database: table name -> its rows, in storage order
    pc,         \* "idle" (no request in hand) or "done" (ServeHTTP returned)
    request,    \* the request ServeHTTP was called with, and the inputs it read
    response,   \* what the handler wrote to the http.ResponseWriter
    queries,    \* the statements the handler sent to the database, in order
    maxOpen,    \* the pool's limit of open connections (db.SetMaxOpenConns)
    numOpen,    \* connections checked out of the pool
    gpc,        \* per concurrent GET /{table}/{id}: its position in handleGetRecord
    held        \* per concurrent request: the connections its open result sets hold

httpVars == <<tables, dbRows, pc, request, response, queries>>
poolVars == <<maxOpen, numOpen, gpc, held>>
vars == <<tables, dbRows, pc, request, response, queries, maxOpen, numOpen, gpc, held>>

-----------------------------------------------------------------------------
(* Bounds of the model *)

\* r.URL.Path is any string of at most MaxPathLen characters that starts with "/"
MaxPathLen == 6
\* every table of the database starts with 0..MaxRows rows
MaxRows == 2
\* concurrent GET /{table}/{id} requests in the pool model
MaxRequests == 3
\* largest pool size tried in the pool model
MaxPool == 3

-----------------------------------------------------------------------------
(* Strings *)

PathChars == {"/", "a", "1"}

\* the byte value of each character the model uses: Go compares strings bytewise
CharCode(c) ==
    CASE c = "-" -> 45
      [] c = "/" -> 47
      [] c = "0" -> 48
      [] c = "1" -> 49
      [] c = "2" -> 50
      [] c = "a" -> 97

\* s < t on Go strings
RECURSIVE StrLess(_, _)
StrLess(s, t) ==
    IF s = <<>> THEN t # <<>>
    ELSE IF t = <<>> THEN FALSE
    ELSE IF Head(s) = Head(t) THEN StrLess(Tail(s), Tail(t))
    ELSE CharCode(Head(s)) < CharCode(Head(t))

\* strings.TrimLeft(s, "/")
RECURSIVE TrimLeft(_)
TrimLeft(s) ==
    IF s # <<>> /\ Head(s) = "/" THEN TrimLeft(Tail(s)) ELSE s

\* strings.TrimRight(s, "/")
RECURSIVE TrimRight(_)
TrimRight(s) ==
    IF s # <<>> /\ s[Len(s)] = "/" THEN TrimRight(SubSeq(s, 1, Len(s) - 1)) ELSE s

\* strings.Trim(s, "/")
Trim(s) == TrimRight(TrimLeft(s))

\* strings.Split(s, "/"): always at least one part; Split("") is [""]
RECURSIVE Split(_)
Split(s) ==
    IF \A i \in 1..Len(s) : s[i] # "/" THEN <<s>>
    ELSE LET i == CHOOSE j \in 1..Len(s) :
                     s[j] = "/" /\ \A k \in 1..(j - 1) : s[k] # "/"
         IN  <<SubSeq(s, 1, i - 1)>> \o Split(SubSeq(s, i + 1, Len(s)))

\* one insertion step of the sort: x placed before the first element greater than it
RECURSIVE InsertSorted(_, _)
InsertSorted(x, sorted) ==
    IF sorted = <<>> THEN <<x>>
    ELSE IF StrLess(x, Head(sorted)) THEN <<x>> \o sorted
    ELSE <<Head(sorted)>> \o InsertSorted(x, Tail(sorted))

RECURSIVE SortFrom(_, _)
SortFrom(rest, sorted) ==
    IF rest = <<>> THEN sorted
    ELSE SortFrom(Tail(rest), InsertSorted(Head(rest), sorted))

\* the names left in the order they were collected in
SortStringsUnsorted(names) == names

\* sort.Strings(tables)
SortStrings(names) == SortFrom(names, <<>>)

\* the orders in which a range over a Go map (or an unordered query result) may
\* yield the elements of S
Orders(S) ==
    {f \in [1..Cardinality(S) -> S] : \A i, j \in 1..Cardinality(S) : f[i] = f[j] => i = j}

-----------------------------------------------------------------------------
(* Values *)

\* 2^27: an integer below 2^54 is hi * Base + lo, which keeps 64-bit ids within
\* TLC's integers
Base == 2 ^ 27

\* A JSON / Go / SQL scalar; every value has the same fields so that any two compare
Num(hi, lo) == [k |-> "num", hi |-> hi, lo |-> lo, s |-> ""]
Str(s) == [k |-> "str", hi |-> 0, lo |-> 0, s |-> s]
Null == [k |-> "null", hi |-> 0, lo |-> 0, s |-> ""]

\* 2^53 + 1, the smallest positive integer a float64 cannot hold
BigId == Num(Base \div 2, 1)

\* strconv.ParseFloat, as encoding/json applies it to a number decoded into an
\* interface{}: an integer below 2^53 is exact; from 2^53 to 2^54 the float64s are the
\* even integers, and an odd one rounds to the neighbour whose mantissa is even
RoundFloat64(v) ==
    IF v.hi < Base \div 2 \/ v.lo % 2 = 0 THEN v
    ELSE IF ((v.lo - 1) \div 2) % 2 = 0 THEN Num(v.hi, v.lo - 1)
    ELSE IF v.lo + 1 = Base THEN Num(v.hi + 1, 0)
    ELSE Num(v.hi, v.lo + 1)

\* one value of the body, as Decode stores it in the map[string]interface{}
DecodeValue(v) == IF v.k = "num" THEN RoundFloat64(v) ELSE v

DigitVal(c) == CASE c = "0" -> 0 [] c = "1" -> 1 [] c = "2" -> 2

IsDigits(s) == s # <<>> /\ \A i \in 1..Len(s) : s[i] \in {"0", "1", "2"}

\* the value of a string of digits
RECURSIVE DigitsValue(_, _)
DigitsValue(s, acc) ==
    IF s = <<>> THEN acc ELSE DigitsValue(Tail(s), 10 * acc + DigitVal(Head(s)))

-----------------------------------------------------------------------------
(* The database *)

\* the names a table can have; "a" < "a1" < "aa" bytewise
TableUniverse == {<<"a">>, <<"a", "1">>, <<"a", "a">>}

\* every table's columns, in the order SELECT * returns them
TableCols == <<"id", "title", "updated">>

\* the columns of a table of the same name in another schema: the column lookup
\* does not filter on table_schema, so it returns these too. One table has such
\* a namesake
OtherSchemaCols(t) == IF t = <<"a", "1">> THEN <<"id">> ELSE <<>>

\* row i of a freshly filled table
InitialRow(i) == [id |-> Num(0, i), title |-> Str("t"), updated |-> Null]

RowValues(row) == [i \in 1..Len(TableCols) |-> row[TableCols[i]]]

Min(a, b) == IF a < b THEN a ELSE b

\* the error text of a failed statement, whatever the driver reports
ErrText == "pq: error"

\* SELECT * FROM t LIMIT l OFFSET o, with l and o spliced in as text: anything
\* but two non-negative integer literals fails
SelectAll(rows, limitValue, offsetValue) ==
    IF ~(IsDigits(limitValue) /\ IsDigits(offsetValue)) THEN [err |-> TRUE, rows |-> <<>>]
    ELSE LET l == DigitsValue(limitValue, 0)
             o == DigitsValue(offsetValue, 0)
             sel == SubSeq(rows, o + 1, Min(o + l, Len(rows)))
         IN  [err |-> FALSE, rows |-> [i \in 1..Len(sel) |-> RowValues(sel[i])]]

\* SELECT * FROM t WHERE id = $1 with $1 the text of the path segment: text that
\* is no integer fails; otherwise the first row with that id, if any
SelectById(rows, idText) ==
    IF ~IsDigits(idText) THEN [err |-> TRUE, found |-> FALSE, values |-> <<>>]
    ELSE LET want == Num(0, DigitsValue(idText, 0))
             hits == {i \in 1..Len(rows) : rows[i].id = want}
         IN  IF hits = {} THEN [err |-> FALSE, found |-> FALSE, values |-> <<>>]
             ELSE [err |-> FALSE, found |-> TRUE,
                   values |-> RowValues(rows[CHOOSE i \in hits : \A j \in hits : i <= j])]

\* SELECT column_name FROM information_schema.columns WHERE table_name = $1: one
\* row per column of every table of that name, in no stated order
ColumnsResults(t) ==
    LET all == TableCols \o OtherSchemaCols(t)
    IN  {[i \in 1..Len(all) |-> all[p[i]]] : p \in Orders(1..Len(all))}

\* whether the database accepts value v for column col of an UPDATE
Assignable(col, v) ==
    \/ col = "title" /\ v.k = "str"
    \/ col = "updated" /\ v.k \in {"str", "null"}

\* UPDATE t SET c1 = $1, ... WHERE id = $N with the bound arguments: fails on an
\* empty SET list, an unknown column, a value the column rejects or an id that is
\* no integer; otherwise every row with that id takes the new values
ExecUpdate(rows, stmt) ==
    LET idArg == stmt.args[stmt.where]
        bad == \/ stmt.set = <<>>
               \/ \E i \in 1..Len(stmt.set) : ~Assignable(stmt.set[i].col, stmt.args[stmt.set[i].ph])
               \/ idArg.k = "str"
        NewValue(row, col) ==
            LET cl == {i \in 1..Len(stmt.set) : stmt.set[i].col = col}
            IN  IF cl = {} THEN row[col]
                ELSE stmt.args[stmt.set[CHOOSE i \in cl : \A j \in cl : j <= i].ph]
    IN  IF bad THEN [err |-> TRUE, rows |-> rows]
        ELSE [err |-> FALSE,
              rows |-> [i \in 1..Len(rows) |->
                          IF rows[i].id = idArg
                          THEN [c \in DOMAIN rows[i] |-> IF c = "id" THEN rows[i].id ELSE NewValue(rows[i], c)]
                          ELSE rows[i]]]

-----------------------------------------------------------------------------
(* Requests and responses *)

Methods == {"GET", "PUT", "POST", "DELETE", "PATCH"}

\* r.URL.Path
Paths ==
    UNION {{<<"/">> \o rest : rest \in [1..n -> PathChars]} : n \in 0..(MaxPathLen - 1)}

\* the text of ?limit= and ?offset=; <<>> is an absent or empty parameter
QueryInputs == {<<>>, <<"0">>, <<"1">>, <<"2">>, <<"a">>}

\* what a body's field may hold
FieldInputs ==
    [id |-> {Num(0, 1), BigId}, title |-> {Str("x")}, updated |-> {Null}, bogus |-> {Str("z")}]

\* r.Body: bytes that are no JSON, or the JSON null, an array or an object
NoBody == [kind |-> "invalid", fields |-> <<>>]
Bodies ==
    {NoBody, [kind |-> "null", fields |-> <<>>], [kind |-> "array", fields |-> <<>>]}
    \cup UNION {{[kind |-> "object", fields |-> f] : f \in {g \in [F -> UNION {FieldInputs[n] : n \in F}] :
                                                              \A n \in F : g[n] \in FieldInputs[n]}}
                : F \in SUBSET DOMAIN FieldInputs}

NoJson == [tag |-> "none", v |-> <<>>]

\* nothing written: the handler returned without touching the ResponseWriter
NoResponse == [written |-> FALSE, status |-> 0, text |-> "", json |-> NoJson]

\* http.Error(w, text, code)
HttpError(text, code) == [written |-> TRUE, status |-> code, text |-> text, json |-> NoJson]

\* json.NewEncoder(w).Encode(response) on a fresh ResponseWriter: status 200
JsonOK(tag, v) == [written |-> TRUE, status |-> 200, text |-> "", json |-> [tag |-> tag, v |-> v]]

\* what a handler leaves behind: the response, the statements sent, the database
Outcome(resp, sent, rows) == [response |-> resp, queries |-> sent, dbRows |-> rows]

-----------------------------------------------------------------------------
(* The handlers *)

\* handleRoot; order is the order the range over de.tables yields the keys in
handleRoot(db, order) ==
    Outcome(JsonOK("tables", SortStrings(order)), <<>>, db)

\* limitValue left at its default whatever the parameter
LimitValueIgnored(limit) == <<"1", "0", "0">>

\* limitValue: "100" unless the parameter is given
LimitValue(limit) == IF limit # <<>> THEN limit ELSE <<"1", "0", "0">>

\* offsetValue: "0" unless the parameter is given
OffsetValue(offset) == IF offset # <<>> THEN offset ELSE <<"0">>

\* rowMap: column i of the names paired with value i
RowMap(names, values) ==
    [c \in {names[i] : i \in 1..Len(names)} |->
        values[CHOOSE i \in 1..Len(names) : names[i] = c /\ \A j \in 1..Len(names) : names[j] = c => j <= i]]

\* handleGetTable; fault is the driver error met, if any
handleGetTable(db, tableName, limit, offset, fault) ==
    LET query == [kind |-> "select", table |-> tableName,
                  limit |-> LimitValue(limit), offset |-> OffsetValue(offset)]
        res == SelectAll(db[tableName], query.limit, query.offset)
        \* var result []map[string]interface{}: nil until a row is appended
        result == [i \in 1..Len(res.rows) |-> RowMap(TableCols, res.rows[i])]
    IN  IF fault = "query" \/ res.err
        THEN Outcome(HttpError(ErrText, 500), <<query>>, db)
        ELSE Outcome(JsonOK("records", [isNil |-> res.rows = <<>>, rows |-> result]), <<query>>, db)

\* decoder.Decode(&data) into a map[string]interface{}
Decode(body) ==
    IF body.kind \in {"invalid", "array"} THEN [err |-> TRUE, data |-> <<>>]
    ELSE [err |-> FALSE, data |-> [n \in DOMAIN body.fields |-> DecodeValue(body.fields[n])]]

\* the loop over data that builds setClauses and values
RECURSIVE PutLoop(_, _, _, _)
PutLoop(keys, data, setClauses, values) ==
    IF keys = <<>> THEN [setClauses |-> setClauses, values |-> values]
    ELSE IF Head(keys) = "id" THEN PutLoop(Tail(keys), data, setClauses, values)
    ELSE PutLoop(Tail(keys), data,
                 Append(setClauses, [col |-> Head(keys), ph |-> Len(values) + 1]),
                 Append(values, data[Head(keys)]))

\* handlePutTable; order is the order the range over data yields the keys in
handlePutTable(db, tableName, body, order, fault) ==
    LET dec == Decode(body)
        data == dec.data
        built == PutLoop(order, data, <<>>, <<>>)
        values == Append(built.values, data["id"])
        stmt == [kind |-> "update", table |-> tableName, set |-> built.setClauses,
                 where |-> Len(values), args |-> values]
        res == ExecUpdate(db[tableName], stmt)
    IN  IF dec.err THEN Outcome(HttpError("Invalid JSON", 400), <<>>, db)
        ELSE IF "id" \notin DOMAIN data THEN Outcome(HttpError("Missing 'id' field", 400), <<>>, db)
        ELSE IF fault = "exec" \/ res.err
        THEN Outcome(HttpError("Error updating record: pq: error", 500), <<stmt>>, db)
        ELSE Outcome(JsonOK("id", data["id"]), <<stmt>>, [db EXCEPT ![tableName] = res.rows])

\* a scan that compares the count of the destinations before it looks for a row
RowScanCountFirst(row, n) ==
    IF row.err THEN "error"
    ELSE IF n # Len(TableCols) THEN "error"
    ELSE IF ~row.found THEN "ErrNoRows"
    ELSE "ok"

\* row.Scan(columnPointers...) with n pointers: the query's own error first, then
\* ErrNoRows when there is no row, and only then the count of the destinations
RowScan(row, n) ==
    IF row.err THEN "error"
    ELSE IF ~row.found THEN "ErrNoRows"
    ELSE IF n # Len(TableCols) THEN "error"
    ELSE "ok"

\* handleGetRecord; columnNames is what the column lookup returned
handleGetRecord(db, tableName, id, columnNames, fault) ==
    LET rowQuery == [kind |-> "selectById", table |-> tableName, id |-> id]
        colQuery == [kind |-> "columns", table |-> tableName]
        sent == <<rowQuery, colQuery>>
        res == SelectById(db[tableName], id)
        row == [res EXCEPT !.err = res.err \/ fault = "row"]
        scan == RowScan(row, Len(columnNames))
    IN  IF fault = "cols" THEN Outcome(HttpError(ErrText, 500), sent, db)
        ELSE IF scan = "ErrNoRows"
        THEN Outcome(HttpError("{\"error\": \"record not found\"}", 404), sent, db)
        ELSE IF scan = "error" THEN Outcome(HttpError(ErrText, 500), sent, db)
        ELSE Outcome(JsonOK("record", RowMap(columnNames, row.values)), sent, db)

\* handlePostRecord
handlePostRecord(db) ==
    Outcome(HttpError("POST operation not implemented for this table", 501), <<>>, db)

\* a DELETE stub that answers like the default branch
handleDeleteRecordNotAllowed(db) ==
    Outcome(HttpError("Method not allowed", 405), <<>>, db)

\* handleDeleteRecord
handleDeleteRecord(db) ==
    Outcome(HttpError("DELETE operation not implemented for this table", 501), <<>>, db)

-----------------------------------------------------------------------------
(* The router *)

\* a dispatch that looks the table up only on the branches that query it
RouteTableCheckedLate(method, parts, cat) ==
    IF Len(parts) = 1 /\ parts[1] = <<>> THEN "handleRoot"
    ELSE IF Len(parts) = 1 THEN
        IF parts[1] \notin DOMAIN cat THEN "unknownTable"
        ELSE CASE method = "GET" -> "handleGetTable"
               [] method = "PUT" -> "handlePutTable"
               [] OTHER -> "methodNotAllowed"
    ELSE IF Len(parts) = 2 THEN
        CASE method = "GET" -> IF parts[1] \notin DOMAIN cat THEN "unknownTable" ELSE "handleGetRecord"
          [] method = "POST" -> "handlePostRecord"
          [] method = "DELETE" -> "handleDeleteRecord"
          [] OTHER -> "methodNotAllowed"
    ELSE IF parts[1] \notin DOMAIN cat THEN "unknownTable"
    ELSE "return"

\* a dispatch that also sends PUT /{table}/{id} to handlePutTable
RoutePutOnRecord(method, parts, cat) ==
    IF Len(parts) = 1 /\ parts[1] = <<>> THEN "handleRoot"
    ELSE IF parts[1] \notin DOMAIN cat THEN "unknownTable"
    ELSE IF Len(parts) = 1 THEN
        CASE method = "GET" -> "handleGetTable"
          [] method = "PUT" -> "handlePutTable"
          [] OTHER -> "methodNotAllowed"
    ELSE IF Len(parts) = 2 THEN
        CASE method = "GET" -> "handleGetRecord"
          [] method = "PUT" -> "handlePutTable"
          [] method = "POST" -> "handlePostRecord"
          [] method = "DELETE" -> "handleDeleteRecord"
          [] OTHER -> "methodNotAllowed"
    ELSE "return"

\* the branch of ServeHTTP a request takes; "return" is the end of the function,
\* reached with nothing written
Route(method, parts, cat) ==
    IF Len(parts) = 1 /\ parts[1] = <<>> THEN "handleRoot"
    ELSE IF parts[1] \notin DOMAIN cat THEN "unknownTable"
    ELSE IF Len(parts) = 1 THEN
        CASE method = "GET" -> "handleGetTable"
          [] method = "PUT" -> "handlePutTable"
          [] OTHER -> "methodNotAllowed"
    ELSE IF Len(parts) = 2 THEN
        CASE method = "GET" -> "handleGetRecord"
          [] method = "POST" -> "handlePostRecord"
          [] method = "DELETE" -> "handleDeleteRecord"
          [] OTHER -> "methodNotAllowed"
    ELSE "return"

\* the parts of the path, as ServeHTTP computes them
Parts(path) == Split(Trim(path))

\* a request of which only the method and the path have been read
Request(method, path) ==
    [method |-> method, path |-> path, limit |-> <<>>, offset |-> <<>>,
     body |-> NoBody, order |-> <<>>, columnNames |-> <<>>, fault |-> "none"]

NoRequest == Request("", <<>>)

\* ServeHTTP returns: the request with what the handler read of it, and the outcome
Served(req, out) ==
    /\ pc' = "done"
    /\ request' = req
    /\ response' = out.response
    /\ queries' = out.queries
    /\ dbRows' = out.dbRows
    /\ UNCHANGED <<tables, poolVars>>

\* ServeHTTP, called with this method and path, takes branch h
Routed(h, method, path) == Route(method, Parts(path), tables) = h

\* lines 51-54: the root listing
ServeRoot ==
    /\ pc = "idle"
    /\ \E method \in Methods, path \in Paths :
        /\ Routed("handleRoot", method, path)
        /\ \E order \in Orders(DOMAIN tables) :
            Served([Request(method, path) EXCEPT !.order = order], handleRoot(dbRows, order))

\* lines 56-60: the first segment is no catalog key
ServeUnknownTable ==
    /\ pc = "idle"
    /\ \E method \in Methods, path \in Paths :
        /\ Routed("unknownTable", method, path)
        /\ Served(Request(method, path),
                  Outcome(HttpError("{\"error\": \"unknown table\"}", 404), <<>>, dbRows))

\* lines 64-65
ServeGetTable ==
    /\ pc = "idle"
    /\ \E method \in Methods, path \in Paths :
        /\ Routed("handleGetTable", method, path)
        /\ \E limit \in QueryInputs, offset \in QueryInputs, fault \in {"none", "query"} :
            Served([Request(method, path) EXCEPT !.limit = limit, !.offset = offset, !.fault = fault],
                   handleGetTable(dbRows, Parts(path)[1], limit, offset, fault))

\* lines 66-67
ServePutTable ==
    /\ pc = "idle"
    /\ \E method \in Methods, path \in Paths :
        /\ Routed("handlePutTable", method, path)
        /\ \E body \in Bodies, fault \in {"none", "exec"} :
            \E order \in Orders(DOMAIN Decode(body).data) :
                Served([Request(method, path) EXCEPT !.body = body, !.fault = fault],
                       handlePutTable(dbRows, Parts(path)[1], body, order, fault))

\* lines 77-78
ServeGetRecord ==
    /\ pc = "idle"
    /\ \E method \in Methods, path \in Paths :
        /\ Routed("handleGetRecord", method, path)
        /\ \E columnNames \in ColumnsResults(Parts(path)[1]), fault \in {"none", "cols", "row"} :
            Served([Request(method, path) EXCEPT !.columnNames = columnNames, !.fault = fault],
                   handleGetRecord(dbRows, Parts(path)[1], Parts(path)[2], columnNames, fault))

\* lines 79-80
ServePostRecord ==
    /\ pc = "idle"
    /\ \E method \in Methods, path \in Paths :
        /\ Routed("handlePostRecord", method, path)
        /\ Served(Request(method, path), handlePostRecord(dbRows))

\* lines 81-82
ServeDeleteRecord ==
    /\ pc = "idle"
    /\ \E method \in Methods, path \in Paths :
        /\ Routed("handleDeleteRecord", method, path)
        /\ Served(Request(method, path), handleDeleteRecord(dbRows))

\* lines 68-69 and 83-84: the default of either method switch
ServeMethodNotAllowed ==
    /\ pc = "idle"
    /\ \E method \in Methods, path \in Paths :
        /\ Routed("methodNotAllowed", method, path)
        /\ Served(Request(method, path), Outcome(HttpError("Method not allowed", 405), <<>>, dbRows))

\* line 87: the end of the function, past both len(parts) tests
ServeReturn ==
    /\ pc = "idle"
    /\ \E method \in Methods, path \in Paths :
        /\ Routed("return", method, path)
        /\ Served(Request(method, path), Outcome(NoResponse, <<>>, dbRows))

\* ServeHTTP(w, r), from the first line to the return
ServeHTTP ==
    \/ ServeRoot
    \/ ServeUnknownTable
    \/ ServeGetTable
    \/ ServePutTable
    \/ ServeGetRecord
    \/ ServePostRecord
    \/ ServeDeleteRecord
    \/ ServeMethodNotAllowed
    \/ ServeReturn

\* the server sends what was written and waits for the next request, which gets
\* a ResponseWriter of its own
NextRequest ==
    /\ pc = "done"
    /\ pc' = "idle"
    /\ request' = NoRequest
    /\ response' = NoResponse
    /\ queries' = <<>>
    /\ UNCHANGED <<tables, dbRows, poolVars>>

\* loadTables: one catalog key per table of the public schema, each mapped to nil
loadTables(names) == [t \in names |-> <<>>]

\* after NewDbExplorer: the catalog of a database of any tables of the universe,
\* all with the same number of fresh rows, and no request in hand
Init ==
    /\ \E names \in SUBSET TableUniverse, n \in 0..MaxRows :
        /\ tables = loadTables(names)
        /\ dbRows = [t \in names |-> [i \in 1..n |-> InitialRow(i)]]
    /\ pc = "idle"
    /\ request = NoRequest
    /\ response = NoResponse
    /\ queries = <<>>
    /\ maxOpen = 0
    /\ numOpen = 0
    /\ gpc = <<>>
    /\ held = <<>>

Next == ServeHTTP \/ NextRequest

Spec == Init /\ [][Next]_vars

-----------------------------------------------------------------------------
(* handleGetRecord against a bounded connection pool *)

\* db.Query and db.QueryRow take a connection from the pool and wait, with no
\* deadline, while maxOpen connections are checked out
ConnAvailable == numOpen < maxOpen

\* line 208: de.db.QueryRow. The Row keeps its connection until row.Scan closes
\* it; a query that failed keeps none and hands its error to row.Scan
QueryRow(r) ==
    /\ gpc[r] = "start"
    /\ ConnAvailable
    /\ \E ok \in BOOLEAN :
        /\ held' = [held EXCEPT ![r] = IF ok THEN 1 ELSE 0]
        /\ numOpen' = numOpen + (IF ok THEN 1 ELSE 0)
    /\ gpc' = [gpc EXCEPT ![r] = "rowOpen"]
    /\ UNCHANGED <<maxOpen, httpVars>>

\* line 210: de.db.Query for the column names succeeds and holds a second connection
QueryColumns(r) ==
    /\ gpc[r] = "rowOpen"
    /\ ConnAvailable
    /\ held' = [held EXCEPT ![r] = @ + 1]
    /\ numOpen' = numOpen + 1
    /\ gpc' = [gpc EXCEPT ![r] = "colsOpen"]
    /\ UNCHANGED <<maxOpen, httpVars>>

\* lines 211-214: the column query fails and the handler answers 500 and returns;
\* row.Scan is never called, so the Row's connection is never given back
QueryColumnsFails(r) ==
    /\ gpc[r] = "rowOpen"
    /\ ConnAvailable
    /\ gpc' = [gpc EXCEPT ![r] = "done"]
    /\ held' = [held EXCEPT ![r] = 0]
    /\ UNCHANGED <<numOpen, maxOpen, httpVars>>

\* lines 218-225: columns.Next() to the end, which closes the result set
ReadColumns(r) ==
    /\ gpc[r] = "colsOpen"
    /\ held' = [held EXCEPT ![r] = @ - 1]
    /\ numOpen' = numOpen - 1
    /\ gpc' = [gpc EXCEPT ![r] = "colsRead"]
    /\ UNCHANGED <<maxOpen, httpVars>>

\* lines 232-251: row.Scan gives the Row's connection back, and the response is written
ScanRow(r) ==
    /\ gpc[r] = "colsRead"
    /\ numOpen' = numOpen - held[r]
    /\ held' = [held EXCEPT ![r] = 0]
    /\ gpc' = [gpc EXCEPT ![r] = "done"]
    /\ UNCHANGED <<maxOpen, httpVars>>

\* the client that got its response sends another GET /{table}/{id}
NextGetRecord(r) ==
    /\ gpc[r] = "done"
    /\ gpc' = [gpc EXCEPT ![r] = "start"]
    /\ UNCHANGED <<held, numOpen, maxOpen, httpVars>>

\* any number of clients up to MaxRequests, each with a request under way, and a
\* pool of any size up to MaxPool with all connections free. main leaves the
\* pool unbounded; a bound is what the caller of NewDbExplorer sets on the
\* *sql.DB it passes in
PoolInit ==
    /\ tables = loadTables(TableUniverse)
    /\ dbRows = [t \in TableUniverse |-> <<InitialRow(1)>>]
    /\ pc = "idle"
    /\ request = NoRequest
    /\ response = NoResponse
    /\ queries = <<>>
    /\ maxOpen \in 1..MaxPool
    /\ numOpen = 0
    /\ \E n \in 1..MaxRequests :
        /\ gpc = [r \in 1..n |-> "start"]
        /\ held = [r \in 1..n |-> 0]

PoolNext ==
    \/ \E r \in DOMAIN gpc : QueryRow(r)
    \/ \E r \in DOMAIN gpc : QueryColumns(r)
    \/ \E r \in DOMAIN gpc : QueryColumnsFails(r)
    \/ \E r \in DOMAIN gpc : ReadColumns(r)
    \/ \E r \in DOMAIN gpc : ScanRow(r)
    \/ \E r \in DOMAIN gpc : NextGetRecord(r)

PoolSpec == PoolInit /\ [][PoolNext]_vars

-----------------------------------------------------------------------------
(* The claims *)

\* ServeHTTP has returned for the request in hand
Returned == pc = "done"

ReqParts == Parts(request.path)

ReqTable == ReqParts[1]

KnownTable == ReqTable \in DOMAIN tables

\* the request is for /{table}: one non-empty segment
TablePath == Len(ReqParts) = 1 /\ ReqParts[1] # <<>>

\* the request is for /{table}/{id}
RecordPath == Len(ReqParts) = 2

UnknownTableText == "{\"error\": \"unknown table\"}"

NotFoundText == "{\"error\": \"record not found\"}"

\* C1: a request whose trimmed path is not empty and whose first segment is no
\* catalog key gets 404 {"error": "unknown table"} and no statement is sent,
\* whatever the method and the number of segments.
C1_UnknownTable ==
    (Returned /\ Trim(request.path) # <<>> /\ ~KnownTable)
        => /\ response = HttpError(UnknownTableText, 404)
           /\ queries = <<>>

C1_Witness ==
    /\ Returned
    /\ ~KnownTable
    /\ request.method = "DELETE"
    /\ Len(ReqParts) = 3
    /\ ReqParts[2] # <<>>
    /\ response.status = 404

\* C2 as claimed: POST and DELETE on a two-segment path get 501 and send no
\* statement, whether or not the table is in the catalog.
C2_Original ==
    (Returned /\ RecordPath /\ request.method \in {"POST", "DELETE"})
        => /\ response.status = 501
           /\ queries = <<>>

\* C2 as amended: POST and DELETE on a two-segment path send no statement; they
\* get 501 when the table is in the catalog, whatever the id, and 404
\* {"error": "unknown table"} when it is not.
C2_StubsBehindTableCheck ==
    (Returned /\ RecordPath /\ request.method \in {"POST", "DELETE"})
        => /\ queries = <<>>
           /\ KnownTable => /\ response.written
                            /\ response.status = 501
                            /\ response.text = IF request.method = "POST"
                                               THEN "POST operation not implemented for this table"
                                               ELSE "DELETE operation not implemented for this table"
           /\ ~KnownTable => response = HttpError(UnknownTableText, 404)

\* a DELETE for the id of a row that exists
C2_Witness ==
    /\ Returned
    /\ RecordPath
    /\ request.method = "DELETE"
    /\ KnownTable
    /\ SelectById(dbRows[ReqTable], ReqParts[2]).found
    /\ response.status = 501

DefaultLimit == 100

\* the number a limit or offset parameter stands for, given its default
ParamValue(text, default) == IF text = <<>> THEN default ELSE DigitsValue(text, 0)

\* a GET /{table} on a known table, with limit and offset absent or non-negative
\* integers, that met no driver error
ListRequest ==
    /\ Returned
    /\ TablePath
    /\ KnownTable
    /\ request.method = "GET"
    /\ request.fault = "none"
    /\ request.limit = <<>> \/ IsDigits(request.limit)
    /\ request.offset = <<>> \/ IsDigits(request.offset)

ListLimit == ParamValue(request.limit, DefaultLimit)

ListOffset == ParamValue(request.offset, 0)

AvailableRows == Len(dbRows[ReqTable])

\* C3 as claimed: the response is 200 and records has min(limit, available_rows -
\* offset) elements, also for an empty table and for offset >= available_rows.
C3_Original ==
    ListRequest
        => /\ response.status = 200
           /\ response.json.tag = "records"
           /\ Len(response.json.v.rows) = Min(ListLimit, AvailableRows - ListOffset)

Max(a, b) == IF a > b THEN a ELSE b

\* C3 as amended: the response is 200 and records holds min(limit, max(0,
\* available_rows - offset)) rows; when that number is 0 records is the nil
\* slice, which is encoded as null.
C3_RecordCount ==
    ListRequest
        => /\ response.status = 200
           /\ response.json.tag = "records"
           /\ Len(response.json.v.rows) = Min(ListLimit, Max(0, AvailableRows - ListOffset))
           /\ response.json.v.isNil <=> Len(response.json.v.rows) = 0

\* limit=1&offset=1 on a table of two rows or more returns the second row alone
C3_Witness ==
    /\ ListRequest
    /\ request.limit = <<"1">>
    /\ request.offset = <<"1">>
    /\ AvailableRows >= 2
    /\ Len(response.json.v.rows) = 1
    /\ response.json.v.rows[1]["id"] = Num(0, 2)

\* a PUT /{table} on a known table whose body is an object with an id
PutRequest ==
    /\ Returned
    /\ TablePath
    /\ KnownTable
    /\ request.method = "PUT"
    /\ request.body.kind = "object"
    /\ "id" \in DOMAIN request.body.fields

OtherFields == DOMAIN request.body.fields \ {"id"}

\* the statement q is the UPDATE the claim describes for the fields given: one
\* clause per field other than id, each placeholder bound to its field's value,
\* and id bound to the last placeholder
UpdateBinds(q, fields) ==
    /\ q.kind = "update"
    /\ q.table = ReqTable
    /\ Len(q.set) = Cardinality(OtherFields)
    /\ \A f \in OtherFields : \E i \in 1..Len(q.set) : q.set[i].col = f
    /\ \A i \in 1..Len(q.set) : q.args[q.set[i].ph] = fields[q.set[i].col]
    /\ q.where = Cardinality(OtherFields) + 1
    /\ Len(q.args) = q.where
    /\ q.args[q.where] = fields["id"]

\* the statement of a PUT succeeded
UpdateSucceeded ==
    request.fault = "none" /\ ~ExecUpdate(dbRows[ReqTable], queries[1]).err

\* C4: PUT /{table} with an object body that has an id sends exactly one UPDATE
\* with one SET clause per other field, each placeholder bound to the value the
\* handler holds for its field and id bound to the last placeholder; when the
\* statement succeeds the response is 200 {"response": {"id": <id as submitted>}},
\* also when no row has that id.
C4_Original ==
    PutRequest
        => /\ Len(queries) = 1
           /\ UpdateBinds(queries[1], Decode(request.body).data)
           /\ UpdateSucceeded => response = JsonOK("id", request.body.fields["id"])

\* What does hold of PUT: the id in the response, like the id bound to the last
\* placeholder, is the id as Decode left it.
PutEchoesDecodedId ==
    PutRequest
        => /\ Len(queries) = 1
           /\ UpdateBinds(queries[1], Decode(request.body).data)
           /\ UpdateSucceeded => response = JsonOK("id", DecodeValue(request.body.fields["id"]))

\* a PUT of two fields for an id no row has succeeds
PutSucceedsWithoutRow ==
    /\ PutRequest
    /\ Cardinality(OtherFields) = 2
    /\ request.body.fields["id"] = BigId
    /\ response.status = 200

\* a GET /{table}/{id} on a known table that met no driver error
GetRequest ==
    /\ Returned
    /\ RecordPath
    /\ KnownTable
    /\ request.method = "GET"

ReqId == ReqParts[2]

\* the rows of the table whose id is the one the path names
MatchingRows ==
    IF IsDigits(ReqId)
    THEN {i \in 1..Len(dbRows[ReqTable]) : dbRows[ReqTable][i].id = Num(0, DigitsValue(ReqId, 0))}
    ELSE {}

\* C5: GET /{table}/{id} for the id of an existing row returns 200 and a record
\* with exactly the table's columns, each paired with the row's value for that
\* column, whatever the column lookup returns and in whatever order.
C5_Original ==
    (GetRequest /\ request.fault = "none" /\ MatchingRows # {})
        => /\ response.status = 200
           /\ response.json.tag = "record"
           /\ DOMAIN response.json.v = {TableCols[i] : i \in 1..Len(TableCols)}
           /\ \A i \in MatchingRows : \A c \in DOMAIN response.json.v :
                response.json.v[c] = dbRows[ReqTable][i][c]

\* C6: GET /{table}/{id} for an id that matches no row returns 404 {"error":
\* "record not found"}, however many column names the lookup returned; a failure
\* of the row query or of the scan returns 500 with the error text (as does a
\* failure of the column lookup, which comes first).
C6_RecordNotFound ==
    GetRequest
        => /\ (request.fault = "none" /\ IsDigits(ReqId) /\ MatchingRows = {})
                => response = HttpError(NotFoundText, 404)
           /\ (request.fault = "row" \/ (request.fault = "none" /\ ~IsDigits(ReqId)))
                => response = HttpError(ErrText, 500)
           /\ (request.fault = "none" /\ MatchingRows # {} /\ Len(request.columnNames) # Len(TableCols))
                => response = HttpError(ErrText, 500)
           /\ request.fault = "cols" => response = HttpError(ErrText, 500)

\* no row has the id, and the lookup returned more names than the table has columns
C6_Witness ==
    /\ GetRequest
    /\ request.fault = "none"
    /\ IsDigits(ReqId)
    /\ MatchingRows = {}
    /\ AvailableRows > 0
    /\ Len(request.columnNames) > Len(TableCols)
    /\ response.status = 404

\* C7: GET / returns 200 {"response": {"tables": T}} with T every catalog key
\* once, in ascending order, whatever order the map yields them in, and sends no
\* statement.
C7_RootSorted ==
    (Returned /\ Trim(request.path) = <<>> /\ request.method = "GET")
        => /\ response.written
           /\ response.status = 200
           /\ response.json.tag = "tables"
           /\ LET T == response.json.v
              IN  /\ {T[i] : i \in 1..Len(T)} = DOMAIN tables
                  /\ Len(T) = Cardinality(DOMAIN tables)
                  /\ \A i \in 1..(Len(T) - 1) : StrLess(T[i], T[i + 1])
           /\ queries = <<>>

\* three tables, yielded by the map with the greatest name first
C7_Witness ==
    /\ Returned
    /\ Trim(request.path) = <<>>
    /\ request.method = "GET"
    /\ Len(request.order) = 3
    /\ StrLess(request.order[2], request.order[1])
    /\ StrLess(request.order[3], request.order[1])
    /\ response.status = 200

\* C8: on a known table, a method other than GET and PUT on /{table}, and a
\* method other than GET, POST and DELETE on /{table}/{id}, gets 405 and sends no
\* statement.
C8_MethodNotAllowed ==
    (/\ Returned
     /\ KnownTable
     /\ \/ TablePath /\ request.method \notin {"GET", "PUT"}
        \/ RecordPath /\ request.method \notin {"GET", "POST", "DELETE"})
        => /\ response = HttpError("Method not allowed", 405)
           /\ queries = <<>>

\* a PUT on /{table}/{id}
C8_Witness ==
    /\ Returned
    /\ KnownTable
    /\ RecordPath
    /\ request.method = "PUT"
    /\ response.status = 405

\* C9: whatever the method and the path, ServeHTTP does not return without
\* having written a status or a body.
C9_Original == Returned => response.written

\* a request of the pool model that has no response yet
Unanswered(r) == gpc[r] \in {"start", "rowOpen", "colsOpen", "colsRead"}

\* a request whose next step is to take a connection when none is free
WaitsForConn(r) == gpc[r] \in {"start", "rowOpen"} /\ ~ConnAvailable

\* C10: concurrent GET /{table}/{id} requests cannot all block on each other:
\* whenever a request has no response yet, some such request can take its next
\* step (none of them waits for a connection that only the waiting requests
\* could give back).
C10_Original ==
    (\E r \in DOMAIN gpc : Unanswered(r))
        => \E r \in DOMAIN gpc : Unanswered(r) /\ ~WaitsForConn(r)

====
